---- MODULE Spec2Model ----
(***************************************************************************)
(* Completion queue of the usnic provider (prov/usnic/src/usdf_cq.c).      *)
(* One CQ object is modelled: its operation table (hard or soft), the      *)
(* union c (hard.cq_cq / soft ring and binding list), the CQ-level raw     *)
(* completion cq_comp (the sticky error slot), and the hardware queue the  *)
(* CQ polls.                                                               *)
(***************************************************************************)
EXTENDS Integers, Sequences, FiniteSets, TLC

\* ------------------------------------------------------------------ bounds
CqSize == 2        \* cq_attr.size, the depth the CQ was opened with
MaxComp == 2       \* completions the hardware queue produces in one run
MaxCount == CqSize         \* largest count handed to a read call
MaxPost == CqSize + 1      \* calls of usdf_cq_post_soft in one run
MaxSpentUs == 2    \* cap on time_spent_us of a blocking read that waits forever
MaxRef == 1        \* references held on the CQ or on one binding
MaxBind == 1       \* bindings attached after the promotion
MaxLongSpentUs == 20000  \* cap on time_spent_us of a blocking read with a deadline

\* --------------------------------------------------------- program constants
\* errno values (rdma/fi_errno.h); the code returns them negated
FI_SUCCESS == 0
FI_EIO == 5
FI_EAGAIN == 11
FI_ENOMEM == 12
FI_ETIMEDOUT == 110
FI_EOTHER == 257
FI_EAVAIL == 259
FI_ECRC == 260
FI_ETRUNC == 265
FI_EBUSY == 16
FI_EINVAL == 22
EAGAIN == 11

\* enum usd_completion_status (usnic_direct.h)
USD_COMPSTAT_SUCCESS == 0
USD_COMPSTAT_ERROR_CRC == 1
USD_COMPSTAT_ERROR_TRUNC == 2
USD_COMPSTAT_ERROR_TIMEOUT == 3
USD_COMPSTAT_ERROR_INTERNAL == 4

\* sizes used by the length adjustment (usdf.h, usd.h)
USDF_HDR_BUF_ENTRY == 64
SizeofUsdUdpHdr == 42

\* backoff of the blocking read (usdf_cq.h)
SREAD_EXP_BASE == 2
SREAD_INIT_SLEEP_TIME_US == 1
SREAD_MAX_SLEEP_TIME_US == 5000

USD_COMPTYPE_SEND == "USD_COMPTYPE_SEND"
USD_COMPTYPE_RECV == "USD_COMPTYPE_RECV"
FI_CQ_FORMAT_CONTEXT == "FI_CQ_FORMAT_CONTEXT"
FI_CQ_FORMAT_MSG == "FI_CQ_FORMAT_MSG"
FI_CQ_FORMAT_DATA == "FI_CQ_FORMAT_DATA"
USDF_SOFT_CQ_READ == "USDF_SOFT_CQ_READ"
USDF_SOFT_CQ_WRITE == "USDF_SOFT_CQ_WRITE"

\* values of the first word of the union c
NULL == "NULL"
UCQ == "ucq"       \* the handle usd_create_cq returned
RING == "ring"     \* the block calloc returned for the soft entries

Formats == {FI_CQ_FORMAT_CONTEXT, FI_CQ_FORMAT_MSG, FI_CQ_FORMAT_DATA}
CompTypes == {USD_COMPTYPE_SEND, USD_COMPTYPE_RECV}
\* the status of the n-th completion: success, or the error picked by n
CompStats(n) == {USD_COMPSTAT_SUCCESS, 1 + (n % 4)}
Counts == 0..MaxCount
Timeouts == {-1, 0}
ProvErrnos == {0, FI_ETRUNC}
SreadTimeouts == {-1, 0, 1, 14}
\* timeouts whose product with 1000 does not fit an int: 1000 * 4294968 is
\* 2^32 + 704, 1000 * 2147484 is 2^31 + 352
LongTimeouts == {1, 2147484, 4294968}

VARIABLES
    ops,         \* cq_fid.ops: "hard" or "soft" table of cq_attr.format
    format,      \* cq_attr.format
    ep_prefix,   \* ep->ep_mode & FI_MSG_PREFIX of the endpoint behind the queue
    cq_refcnt,   \* cq->cq_refcnt
    cq_comp,     \* cq->cq_comp, the raw completion last polled into the CQ
    c,           \* the union cq->c
    comps,       \* the soft entries cq_comps points to
    hwq,         \* completions waiting in the hardware queue (usd_cq)
    nprod,       \* completions the hardware queue has produced
    nposted,     \* calls of usdf_cq_post_soft so far
    ucq,         \* the hardware queue object: "none", "live"
    sr,          \* the blocking read in progress, if any
    call,        \* the last call and what it returned
    expect,      \* history: context of the next hardware completion to deliver
    fifo_ok,     \* history: every delivery so far was the expected one
    returned,    \* history: how often each hardware context was handed out (at most 2)
    dropped,     \* history: a push found the ring full
    errPending,  \* history: a read stopped short at this failed completion
    burst,       \* history: the pushes onto an empty ring, and the reads after
    freed,       \* usdf_cq_close has freed the CQ
    destroyed    \* hardware queues usd_destroy_cq has destroyed

vars == <<ops, format, ep_prefix, cq_refcnt, cq_comp, c, comps, hwq, nprod,
          nposted, ucq, sr, call, expect, fifo_ok, returned, dropped, errPending, burst,
          freed, destroyed>>

Min(a, b) == IF a < b THEN a ELSE b

\* ------------------------------------------------------------ zero values
ZeroComp == [uc_context |-> 0, uc_type |-> USD_COMPTYPE_SEND,
             uc_status |-> 0, uc_bytes |-> 0]
ZeroEntry == [cse_context |-> 0, cse_flags |-> {}, cse_len |-> 0,
              cse_buf |-> 0, cse_data |-> 0, cse_prov_errno |-> 0]
ZeroRing == [i \in 0..(CqSize - 1) |-> ZeroEntry]
ZeroUnion == [w0 |-> NULL, cq_end |-> 0, cq_head |-> 0, cq_tail |-> 0,
              cq_last_op |-> USDF_SOFT_CQ_READ, cq_list |-> <<>>]
NoSread == [active |-> FALSE, count |-> 0, timeout_ms |-> 0,
            sleep_time_us |-> 0, time_spent_us |-> 0]
NoErr == [op_context |-> 0, flags |-> {}, err |-> 0, prov_errno |-> 0]
NoCall == [op |-> "none", count |-> 0, ret |-> 0, out |-> <<>>, addr |-> <<>>,
           err |-> NoErr, stop |-> "none", timeout_ms |-> 0, spent |-> 0]
NoPending == [set |-> FALSE, context |-> 0]
NoBurst == [phase |-> "off", first |-> 0, n |-> 0, got |-> 0]

\* the two views of the first word of the union
hard_cq_cq(u) == u.w0
soft_cq_comps(u) == u.w0

usdf_cq_is_soft == ops = "soft"

\* ------------------------------------------------------------ collaborators
\* usd_poll_cq: dequeue one raw completion, or report -EAGAIN
usd_poll_cq(q) ==
    IF q = <<>> THEN [ret |-> -EAGAIN, comp |-> ZeroComp, q |-> q]
    ELSE [ret |-> 0, comp |-> Head(q), q |-> Tail(q)]

\* --------------------------------------------------------------- Entry Copier
\* variant: the completion type is ignored and every entry is flagged as a send
usdf_cqe_to_flags_send_only(comp) == {"FI_MSG", "FI_SEND"}

usdf_cqe_to_flags(comp) ==
    CASE comp.uc_type = USD_COMPTYPE_SEND -> {"FI_MSG", "FI_SEND"}
      [] comp.uc_type = USD_COMPTYPE_RECV -> {"FI_MSG", "FI_RECV"}
      [] OTHER -> {}

\* variant: the endpoint's FI_MSG_PREFIX mode is ignored
usdf_cq_adjust_len_no_prefix(src, len) ==
    IF src.uc_type = USD_COMPTYPE_RECV THEN len - SizeofUsdUdpHdr ELSE len

usdf_cq_adjust_len(src, len) ==
    IF src.uc_type = USD_COMPTYPE_RECV
    THEN IF ep_prefix THEN len + (USDF_HDR_BUF_ENTRY - SizeofUsdUdpHdr)
         ELSE len - SizeofUsdUdpHdr
    ELSE IF ep_prefix THEN len + USDF_HDR_BUF_ENTRY ELSE len

usdf_cq_copy_cq_entry(src, fmt) ==
    CASE fmt = FI_CQ_FORMAT_CONTEXT -> [op_context |-> src.uc_context]
      [] fmt = FI_CQ_FORMAT_MSG ->
            [op_context |-> src.uc_context, flags |-> usdf_cqe_to_flags(src),
             len |-> usdf_cq_adjust_len(src, src.uc_bytes)]
      [] fmt = FI_CQ_FORMAT_DATA ->
            [op_context |-> src.uc_context, flags |-> usdf_cqe_to_flags(src),
             len |-> usdf_cq_adjust_len(src, src.uc_bytes), buf |-> 0, data |-> 0]

usdf_cq_copy_soft_entry(src, fmt) ==
    CASE fmt = FI_CQ_FORMAT_CONTEXT -> [op_context |-> src.cse_context]
      [] fmt = FI_CQ_FORMAT_MSG ->
            [op_context |-> src.cse_context, flags |-> src.cse_flags,
             len |-> src.cse_len]
      [] fmt = FI_CQ_FORMAT_DATA ->
            [op_context |-> src.cse_context, flags |-> src.cse_flags,
             len |-> src.cse_len, buf |-> src.cse_buf, data |-> src.cse_data]

\* prov_errno usdf_cq_readerr reports for a raw status
ReaderrProvErrno(status) ==
    CASE status = USD_COMPSTAT_ERROR_CRC -> FI_ECRC
      [] status = USD_COMPSTAT_ERROR_TRUNC -> FI_ETRUNC
      [] status = USD_COMPSTAT_ERROR_TIMEOUT -> FI_ETIMEDOUT
      [] status = USD_COMPSTAT_ERROR_INTERNAL -> FI_EOTHER
      [] OTHER -> FI_SUCCESS

\* ------------------------------------------------------------ history
\* deliveries ctxs (in order) are the next expected hardware completions
DeliverOk(ctxs) ==
    fifo_ok /\ \A i \in 1..Len(ctxs) : ctxs[i] = expect + i - 1 /\ ctxs[i] <= nprod

Returned(ctxs) ==
    [n \in 1..MaxComp |->
        Min(2, returned[n] + Cardinality({i \in 1..Len(ctxs) : ctxs[i] = n}))]

Deliver(ctxs) ==
    /\ fifo_ok' = DeliverOk(ctxs)
    /\ returned' = Returned(ctxs)
    /\ expect' = IF DeliverOk(ctxs) THEN expect + Len(ctxs) ELSE 0

Contexts(out) == [i \in 1..Len(out) |-> out[i].op_context]

\* context handed to the n-th call of usdf_cq_post_soft
PostContext(n) == 100 + n

Idle == ~sr.active /\ ~freed

\* ------------------------------------------------------------ Soft Entry Ring
RingFull(u) == u.cq_head = u.cq_tail /\ u.cq_last_op = USDF_SOFT_CQ_WRITE
RingEmpty(u) == u.cq_head = u.cq_tail /\ u.cq_last_op = USDF_SOFT_CQ_READ

\* entry++ with the wrap at cq_end back to cq_comps
RingNext(u, i) == IF i + 1 = u.cq_end THEN 0 ELSE i + 1

\* number of entries between tail and head
RingCount(u) ==
    IF u.cq_head = u.cq_tail
    THEN (IF u.cq_last_op = USDF_SOFT_CQ_WRITE THEN u.cq_end ELSE 0)
    ELSE (u.cq_head - u.cq_tail + u.cq_end) % u.cq_end

\* the buffered entries, oldest first
RingSeq(u, ring) ==
    [i \in 1..RingCount(u) |-> ring[(u.cq_tail + i - 1) % u.cq_end]]

\* usdf_cq_post_soft on the pair s = [u, ring, dropped]
PostSoftEntry(old, context, len, prov_errno) ==
    [old EXCEPT !.cse_context = context, !.cse_len = len,
                !.cse_prov_errno = prov_errno]

post_soft(s, context, len, prov_errno) ==
    IF RingFull(s.u)
    THEN [s EXCEPT !.dropped = TRUE]
    ELSE [s EXCEPT !.ring[s.u.cq_head] = PostSoftEntry(@, context, len, prov_errno),
                   !.u.cq_head = RingNext(s.u, s.u.cq_head),
                   !.u.cq_last_op = USDF_SOFT_CQ_WRITE]

\* ------------------------------------------------------------ Soft-Mode Pump
\* the entry usdf_progress_hard_cq stores for the completion it polled into its
\* local comp: the fields are taken from cq->cq_comp
PumpEntry(old, comp, cqcomp) ==
    [old EXCEPT !.cse_context = cqcomp.uc_context, !.cse_flags = {},
                !.cse_len = cqcomp.uc_bytes, !.cse_buf = 0, !.cse_data = 0]

\* usdf_progress_hard_cq on s = [u, ring, q, dropped]
RECURSIVE progress_hard_cq(_, _)
progress_hard_cq(s, cqcomp) ==
    LET p == usd_poll_cq(s.q) IN
    IF p.ret = -EAGAIN THEN s
    ELSE IF RingFull(s.u)
    THEN [s EXCEPT !.q = p.q, !.dropped = TRUE]
    ELSE progress_hard_cq(
             [s EXCEPT !.q = p.q,
                       !.ring[s.u.cq_head] = PumpEntry(@, p.comp, cqcomp),
                       !.u.cq_head = RingNext(s.u, s.u.cq_head),
                       !.u.cq_last_op = USDF_SOFT_CQ_WRITE],
             cqcomp)

\* usdf_domain_progress: the progress routine of every binding, in list order
RECURSIVE domain_progress(_, _, _)
domain_progress(s, list, cqcomp) ==
    IF list = <<>> THEN s
    ELSE domain_progress(
             IF Head(list).cqh_ucq = UCQ THEN progress_hard_cq(s, cqcomp) ELSE s,
             Tail(list), cqcomp)

Progressed == domain_progress([u |-> c, ring |-> comps, q |-> hwq, dropped |-> FALSE],
                              c.cq_list, cq_comp)

\* ------------------------------------------------------------ soft reader
\* the scan loop shared by usdf_cq_read_common_soft and usdf_cq_sread_common_soft
RECURSIVE SoftReadLoop(_, _, _, _, _)
SoftReadLoop(u, ring, tail, out, count) ==
    IF Len(out) >= count
    THEN [u |-> u, tail |-> tail, out |-> out, stop |-> "full"]
    ELSE IF tail = u.cq_head /\ u.cq_last_op = USDF_SOFT_CQ_READ
    THEN [u |-> u, tail |-> tail, out |-> out, stop |-> "empty"]
    ELSE IF ring[tail].cse_prov_errno > 0
    THEN [u |-> u, tail |-> tail, out |-> out, stop |-> "err"]
    ELSE SoftReadLoop([u EXCEPT !.cq_last_op = USDF_SOFT_CQ_READ], ring,
                      RingNext(u, tail),
                      Append(out, usdf_cq_copy_soft_entry(ring[tail], format)),
                      count)

SoftReadRet(r) ==
    IF Len(r.out) > 0 THEN Len(r.out)
    ELSE IF r.stop = "err" THEN -FI_EAVAIL ELSE -FI_EAGAIN

\* history of a burst of pushes: what a soft read does to it
BurstRead(pushed, k) ==
    IF pushed \/ burst.phase = "off" THEN NoBurst
    ELSE [burst EXCEPT !.phase = "read", !.got = @ + k]

PendingAfter(r, context) ==
    IF r.stop = "err" /\ Len(r.out) > 0
    THEN [set |-> TRUE, context |-> context]
    ELSE errPending

\* ------------------------------------------------------------ Hard-Mode Reader
\* the while loop of usdf_cq_read_common and usdf_cq_sread_common up to the
\* first -EAGAIN: poll, stop on a failed completion, else copy
RECURSIVE HardReadLoop(_, _, _, _, _)
HardReadLoop(q, comp, out, ret, count) ==
    IF Len(out) >= count
    THEN [q |-> q, comp |-> comp, out |-> out, ret |-> ret, stop |-> "full"]
    ELSE LET p == usd_poll_cq(q) IN
         IF p.ret = -EAGAIN
         THEN [q |-> q, comp |-> comp, out |-> out, ret |-> p.ret, stop |-> "eagain"]
         ELSE IF p.comp.uc_status # 0
         THEN [q |-> p.q, comp |-> p.comp, out |-> out, ret |-> -FI_EAVAIL,
               stop |-> "err"]
         ELSE HardReadLoop(p.q, p.comp,
                           Append(out, usdf_cq_copy_cq_entry(p.comp, format)),
                           FI_SUCCESS, count)

\* variant: a failed completion makes the read return the error even though it
\* has already copied entries
HardReadRetErrorFirst(r) ==
    IF Len(r.out) > 0 /\ r.stop # "err" THEN Len(r.out) ELSE r.ret

HardReadRet(r) == IF Len(r.out) > 0 THEN Len(r.out) ELSE r.ret

\* variant: the sticky error slot is never looked at
StickyNeverSet(comp) == FALSE

\* the sticky error slot is set
StickySet(comp) == comp.uc_status # 0

usdf_cq_read_common(count) ==
    /\ Idle /\ ops = "hard" /\ hard_cq_cq(c) = UCQ
    /\ IF StickySet(cq_comp)
       THEN /\ call' = [NoCall EXCEPT !.op = "read", !.count = count,
                                      !.ret = -FI_EAVAIL, !.stop = "sticky"]
            /\ UNCHANGED <<cq_comp, hwq, expect, fifo_ok, returned, errPending>>
       ELSE LET r == HardReadLoop(hwq, cq_comp, <<>>, 0, count) IN
            /\ cq_comp' = r.comp
            /\ hwq' = r.q
            /\ call' = [NoCall EXCEPT !.op = "read", !.count = count,
                                      !.ret = HardReadRet(r), !.out = r.out,
                                      !.stop = r.stop]
            /\ Deliver(Contexts(r.out))
            /\ errPending' = PendingAfter(r, r.comp.uc_context)
    /\ UNCHANGED <<ops, format, freed, destroyed, ep_prefix, cq_refcnt, c, comps, nprod, nposted,
                   ucq, sr, dropped, burst>>

usdf_cq_readerr ==
    /\ Idle /\ ops = "hard"
    /\ IF cq_comp.uc_status = 0
       THEN /\ call' = [NoCall EXCEPT !.op = "readerr", !.ret = -FI_EAGAIN]
            /\ UNCHANGED <<cq_comp, expect, fifo_ok, returned, errPending>>
       ELSE /\ call' = [NoCall EXCEPT !.op = "readerr", !.ret = 1,
                            !.err = [op_context |-> cq_comp.uc_context,
                                     flags |-> {}, err |-> FI_EIO,
                                     prov_errno |-> ReaderrProvErrno(cq_comp.uc_status)]]
            /\ cq_comp' = [cq_comp EXCEPT !.uc_status = 0]
            /\ Deliver(<<cq_comp.uc_context>>)
            /\ errPending' = NoPending
    /\ UNCHANGED <<ops, format, freed, destroyed, ep_prefix, cq_refcnt, c, comps, hwq, nprod,
                   nposted, ucq, sr, dropped, burst>>

\* ------------------------------------------------------------ Blocking/Backoff Poller
\* variant: the deadline compared in milliseconds against microseconds slept
ExpiredUnscaled(timeout_ms, time_spent_us) ==
    timeout_ms >= 0 /\ time_spent_us >= timeout_ms

\* variant: a negative timeout treated as an expired deadline
ExpiredNegative(timeout_ms, time_spent_us) ==
    time_spent_us >= 1000 * timeout_ms

\* 1000 * timeout_ms as the int product the code writes, for 0 <= timeout_ms <
\* 2^31: the low 32 bits of the product read as a signed int, computed on 16-bit
\* halves
Mul1000Int(timeout_ms) ==
    LET lo == 1000 * (timeout_ms % 65536)
        hi == (1000 * (timeout_ms \div 65536) + (lo \div 65536)) % 65536
    IN
    IF hi >= 32768 THEN (hi - 65536) * 65536 + (lo % 65536)
    ELSE hi * 65536 + (lo % 65536)

\* time_spent_us >= d with the int d converted to size_t (64 bits): a negative
\* d becomes a value above every time_spent_us the model reaches
AtOrPast(time_spent_us, d) == d >= 0 /\ time_spent_us >= d

\* the deadline test of the blocking reads
Expired(timeout_ms, time_spent_us) ==
    timeout_ms >= 0 /\ AtOrPast(time_spent_us, Mul1000Int(timeout_ms))

\* the same test when the build widens the product to 64 bits before the
\* comparison, as the overflow of the int product is undefined behaviour
ExpiredWide(timeout_ms, time_spent_us) ==
    timeout_ms >= 0 /\ time_spent_us \div 1000 >= timeout_ms

\* variant: the deadline never counts as reached
ExpiredOutcomesNever(timeout_ms, time_spent_us) == {FALSE}

\* the results the deadline test can have
ExpiredOutcomes(timeout_ms, time_spent_us) ==
    {Expired(timeout_ms, time_spent_us), ExpiredWide(timeout_ms, time_spent_us)}

\* variant: the quantum grows without the cap
BackoffUncapped(sleep_time_us) == sleep_time_us * SREAD_EXP_BASE

\* the quantum after one more sleep
Backoff(sleep_time_us) ==
    Min(IF sleep_time_us < SREAD_MAX_SLEEP_TIME_US
        THEN sleep_time_us * SREAD_EXP_BASE ELSE sleep_time_us,
        SREAD_MAX_SLEEP_TIME_US)

\* usleep(sleep_time_us) and the bookkeeping after it
Sleep(count, timeout_ms, sleep_time_us, time_spent_us) ==
    /\ time_spent_us < (IF timeout_ms < 0 THEN MaxSpentUs ELSE MaxLongSpentUs)
    /\ sr' = [active |-> TRUE, count |-> count, timeout_ms |-> timeout_ms,
              sleep_time_us |-> Backoff(sleep_time_us),
              time_spent_us |-> time_spent_us + sleep_time_us]
    /\ call' = [NoCall EXCEPT !.op = "sread_sleep", !.count = count,
                              !.timeout_ms = timeout_ms,
                              !.spent = time_spent_us + sleep_time_us]

\* one pass of the loop of usdf_cq_sread_common, up to its return or its usleep
HardSreadAttempt(count, timeout_ms, sleep_time_us, time_spent_us) ==
    LET r == HardReadLoop(hwq, cq_comp, <<>>, 0, count) IN
    /\ cq_comp' = r.comp
    /\ hwq' = r.q
    /\ Deliver(Contexts(r.out))
    /\ errPending' = PendingAfter(r, r.comp.uc_context)
    /\ \E expired \in ExpiredOutcomes(timeout_ms, time_spent_us) :
         IF r.stop = "eagain" /\ Len(r.out) = 0 /\ ~expired
         THEN Sleep(count, timeout_ms, sleep_time_us, time_spent_us)
         ELSE /\ sr' = NoSread
              /\ call' = [NoCall EXCEPT !.op = "sread", !.count = count,
                             !.timeout_ms = timeout_ms, !.spent = time_spent_us,
                             !.out = r.out, !.stop = r.stop,
                             !.ret = IF Len(r.out) > 0 THEN Len(r.out)
                                     ELSE IF r.stop = "err" THEN -FI_EAVAIL
                                     ELSE -FI_EAGAIN]

usdf_cq_sread_common(count, timeout_ms) ==
    /\ Idle /\ ops = "hard" /\ hard_cq_cq(c) = UCQ
    /\ IF StickySet(cq_comp)
       THEN /\ call' = [NoCall EXCEPT !.op = "sread", !.count = count,
                                      !.timeout_ms = timeout_ms,
                                      !.ret = -FI_EAVAIL, !.stop = "sticky"]
            /\ UNCHANGED <<cq_comp, hwq, expect, fifo_ok, returned, errPending, sr>>
       ELSE HardSreadAttempt(count, timeout_ms, SREAD_INIT_SLEEP_TIME_US, 0)
    /\ UNCHANGED <<ops, format, freed, destroyed, ep_prefix, cq_refcnt, c, comps, nprod, nposted,
                   ucq, dropped, burst>>

\* usdf_cq_sread_common after its usleep returned
usdf_cq_sread_common_wake ==
    /\ sr.active /\ ops = "hard"
    /\ HardSreadAttempt(sr.count, sr.timeout_ms, sr.sleep_time_us, sr.time_spent_us)
    /\ UNCHANGED <<ops, format, freed, destroyed, ep_prefix, cq_refcnt, c, comps, nprod, nposted,
                   ucq, dropped, burst>>

\* ------------------------------------------------------------ readfrom
FI_ADDR_NOTAVAIL == -1
AddrUntouched == 0
AddrOf(context) == 1000 + context

\* the src_addr array after the entries of q[1..k]: a receive completion writes
\* the slot under the cursor and advances it
RECURSIVE ReadfromAddrs(_, _, _, _, _, _)
ReadfromAddrs(q, k, i, cursor, addr, avok) ==
    IF i > k THEN addr
    ELSE IF q[i].uc_type = USD_COMPTYPE_RECV
    THEN ReadfromAddrs(q, k, i + 1, cursor + 1,
             [addr EXCEPT ![cursor] = IF avok[i] THEN AddrOf(q[i].uc_context)
                                      ELSE FI_ADDR_NOTAVAIL],
             avok)
    ELSE ReadfromAddrs(q, k, i + 1, cursor, addr, avok)

usdf_cq_readfrom_context(count) ==
    /\ Idle /\ ops = "hard" /\ hard_cq_cq(c) = UCQ
    /\ format = FI_CQ_FORMAT_CONTEXT
    /\ IF StickySet(cq_comp)
       THEN /\ call' = [NoCall EXCEPT !.op = "readfrom", !.count = count,
                                      !.ret = -FI_EAVAIL, !.stop = "sticky"]
            /\ UNCHANGED <<cq_comp, hwq, expect, fifo_ok, returned, errPending>>
       ELSE LET r == HardReadLoop(hwq, cq_comp, <<>>, 0, count)
                k == Len(r.out)
            IN
            /\ cq_comp' = r.comp
            /\ hwq' = r.q
            /\ \E avok \in [1..k -> BOOLEAN] :
                 call' = [NoCall EXCEPT !.op = "readfrom", !.count = count,
                            !.out = r.out, !.stop = r.stop,
                            !.addr = ReadfromAddrs(hwq, k, 1, 1,
                                        [j \in 1..count |-> AddrUntouched], avok),
                            !.ret = IF k > 0 THEN k
                                    ELSE IF r.stop = "err" THEN -FI_EAVAIL ELSE 0]
            /\ Deliver(Contexts(r.out))
            /\ errPending' = PendingAfter(r, r.comp.uc_context)
    /\ UNCHANGED <<ops, format, freed, destroyed, ep_prefix, cq_refcnt, c, comps, nprod, nposted,
                   ucq, sr, dropped, burst>>

\* ------------------------------------------------------------ soft-mode calls
usdf_cq_read_common_soft(count) ==
    /\ Idle /\ ops = "soft"
    /\ IF StickySet(cq_comp)
       THEN /\ call' = [NoCall EXCEPT !.op = "read", !.count = count,
                                      !.ret = -FI_EAVAIL, !.stop = "sticky"]
            /\ burst' = BurstRead(FALSE, 0)
            /\ UNCHANGED <<c, comps, hwq, expect, fifo_ok, returned, errPending, dropped>>
       ELSE LET P == Progressed
                r == SoftReadLoop(P.u, P.ring, P.u.cq_tail, <<>>, count)
            IN
            /\ comps' = P.ring
            /\ hwq' = P.q
            /\ dropped' = (dropped \/ P.dropped)
            /\ c' = IF r.stop = "err" /\ Len(r.out) = 0 THEN P.u
                    ELSE [r.u EXCEPT !.cq_tail = r.tail]
            /\ call' = [NoCall EXCEPT !.op = "read", !.count = count,
                                      !.ret = SoftReadRet(r), !.out = r.out,
                                      !.stop = r.stop]
            /\ Deliver(Contexts(r.out))
            /\ errPending' = PendingAfter(r, P.ring[r.tail].cse_context)
            /\ burst' = BurstRead(P.q # hwq, Len(r.out))
    /\ UNCHANGED <<ops, format, freed, destroyed, ep_prefix, cq_refcnt, cq_comp, nprod, nposted,
                   ucq, sr>>

\* one pass of the outer loop of usdf_cq_sread_common_soft
SoftSreadAttempt(count, timeout_ms, sleep_time_us, time_spent_us) ==
    LET P == Progressed
        r == SoftReadLoop(P.u, P.ring, P.u.cq_tail, <<>>, count)
    IN
    /\ comps' = P.ring
    /\ hwq' = P.q
    /\ dropped' = (dropped \/ P.dropped)
    /\ Deliver(Contexts(r.out))
    /\ errPending' = PendingAfter(r, P.ring[r.tail].cse_context)
    /\ burst' = BurstRead(P.q # hwq, Len(r.out))
    /\ IF Len(r.out) > 0
       THEN /\ c' = [r.u EXCEPT !.cq_tail = r.tail]
            /\ sr' = NoSread
            /\ call' = [NoCall EXCEPT !.op = "sread", !.count = count,
                           !.timeout_ms = timeout_ms, !.spent = time_spent_us,
                           !.out = r.out, !.stop = r.stop, !.ret = Len(r.out)]
       ELSE /\ c' = P.u
            /\ \E expired \in ExpiredOutcomes(timeout_ms, time_spent_us) :
                 IF r.stop = "err" \/ expired
                 THEN /\ sr' = NoSread
                      /\ call' = [NoCall EXCEPT !.op = "sread", !.count = count,
                             !.timeout_ms = timeout_ms, !.spent = time_spent_us,
                                     !.stop = r.stop,
                                     !.ret = IF r.stop = "err" THEN -FI_EAVAIL
                                             ELSE -FI_EAGAIN]
                 ELSE Sleep(count, timeout_ms, sleep_time_us, time_spent_us)

usdf_cq_sread_common_soft(count, timeout_ms) ==
    /\ Idle /\ ops = "soft"
    /\ SoftSreadAttempt(count, timeout_ms, SREAD_INIT_SLEEP_TIME_US, 0)
    /\ UNCHANGED <<ops, format, freed, destroyed, ep_prefix, cq_refcnt, cq_comp, nprod, nposted, ucq>>

\* usdf_cq_sread_common_soft after its usleep returned
usdf_cq_sread_common_soft_wake ==
    /\ sr.active /\ ops = "soft"
    /\ SoftSreadAttempt(sr.count, sr.timeout_ms, sr.sleep_time_us, sr.time_spent_us)
    /\ UNCHANGED <<ops, format, freed, destroyed, ep_prefix, cq_refcnt, cq_comp, nprod, nposted, ucq>>

\* usdf_cq_readfrom_context_soft hands c.hard.cq_cq to usd_poll_cq; on a soft CQ
\* that word of the union is c.soft.cq_comps, the ring array, so the poll is
\* undefined behaviour. Outcomes kept here: the poll reports nothing, or it
\* reports a completion made of whatever it read (a fault ends the process and
\* is left out).
GarbageComps ==
    {[uc_context |-> 0, uc_type |-> USD_COMPTYPE_SEND, uc_status |-> st,
      uc_bytes |-> 0] : st \in {USD_COMPSTAT_SUCCESS, USD_COMPSTAT_ERROR_INTERNAL}}

usdf_cq_readfrom_context_soft(count) ==
    /\ Idle /\ ops = "soft"
    /\ format = FI_CQ_FORMAT_CONTEXT
    /\ IF StickySet(cq_comp)
       THEN /\ call' = [NoCall EXCEPT !.op = "readfrom", !.count = count,
                                      !.ret = -FI_EAVAIL, !.stop = "sticky"]
            /\ UNCHANGED cq_comp
       ELSE IF count = 0
       THEN /\ call' = [NoCall EXCEPT !.op = "readfrom", !.count = count,
                                      !.stop = "full"]
            /\ UNCHANGED cq_comp
       ELSE \/ /\ call' = [NoCall EXCEPT !.op = "readfrom", !.count = count,
                               !.addr = [j \in 1..count |-> AddrUntouched],
                               !.stop = "eagain"]
               /\ UNCHANGED cq_comp
            \/ \E g \in GarbageComps :
                 /\ cq_comp' = g
                 /\ call' = IF g.uc_status # 0
                            THEN [NoCall EXCEPT !.op = "readfrom", !.count = count,
                                    !.addr = [j \in 1..count |-> AddrUntouched],
                                    !.ret = -FI_EAVAIL, !.stop = "err"]
                            ELSE [NoCall EXCEPT !.op = "readfrom", !.count = count,
                                    !.addr = [j \in 1..count |-> AddrUntouched],
                                    !.out = <<[op_context |-> g.uc_context]>>,
                                    !.ret = 1, !.stop = "eagain"]
    /\ UNCHANGED <<ops, format, freed, destroyed, ep_prefix, cq_refcnt, c, comps, hwq,
                   nprod, nposted, ucq, sr, expect, fifo_ok, returned, dropped,
                   errPending, burst>>

\* the ring after usdf_cq_readerr_soft
ReaderrSoftUnion(u) == [u EXCEPT !.cq_tail = RingNext(u, u.cq_tail)]

usdf_cq_readerr_soft ==
    /\ Idle /\ ops = "soft"
    /\ call' = [NoCall EXCEPT !.op = "readerr", !.ret = 1,
                   !.err = [op_context |-> comps[c.cq_tail].cse_context,
                            flags |-> {}, err |-> FI_EIO,
                            prov_errno |-> comps[c.cq_tail].cse_prov_errno]]
    /\ c' = ReaderrSoftUnion(c)
    /\ Deliver(<<comps[c.cq_tail].cse_context>>)
    /\ errPending' = NoPending
    /\ burst' = NoBurst
    /\ UNCHANGED <<ops, format, freed, destroyed, ep_prefix, cq_refcnt, cq_comp, comps, hwq, nprod,
                   nposted, ucq, sr, dropped>>

\* a binding's progress routine reports a completion of its own
usdf_cq_post_soft(prov_errno) ==
    /\ Idle /\ ops = "soft" /\ nposted < MaxPost
    /\ LET context == PostContext(nposted + 1)
           s == post_soft([u |-> c, ring |-> comps, dropped |-> FALSE],
                          context, 10 + nposted, prov_errno)
       IN
       /\ c' = s.u
       /\ comps' = s.ring
       /\ dropped' = (dropped \/ s.dropped)
       /\ burst' = IF prov_errno > 0 THEN NoBurst
                   ELSE IF RingEmpty(c)
                   THEN [phase |-> "push", first |-> nposted + 1, n |-> 1, got |-> 0]
                   ELSE IF burst.phase = "push" THEN [burst EXCEPT !.n = @ + 1]
                   ELSE NoBurst
    /\ nposted' = nposted + 1
    /\ call' = [NoCall EXCEPT !.op = "post_soft"]
    /\ UNCHANGED <<ops, format, freed, destroyed, ep_prefix, cq_refcnt, cq_comp, hwq, nprod, ucq, sr,
                   expect, fifo_ok, returned, errPending>>

\* the progress sweep of the domain, outside any read
usdf_domain_progress ==
    /\ Idle /\ ops = "soft"
    /\ LET P == Progressed IN
       /\ c' = P.u
       /\ comps' = P.ring
       /\ hwq' = P.q
       /\ dropped' = (dropped \/ P.dropped)
       /\ burst' = IF P.q # hwq THEN NoBurst ELSE burst
    /\ call' = [NoCall EXCEPT !.op = "progress"]
    /\ UNCHANGED <<ops, format, freed, destroyed, ep_prefix, cq_refcnt, cq_comp, nprod, nposted, ucq,
                   sr, expect, fifo_ok, returned, errPending>>

\* ------------------------------------------------------------ Mode Switch
\* variant: the mode test is missing and every call promotes
MakeSoftAlways == TRUE

\* the test cq->cq_fid.ops == hard_ops
MakeSoftFromHard == ops = "hard"

\* the binding usdf_cq_make_soft builds for the hardware queue it found
THIS_CQ == "cq"     \* the address of the one struct usdf_cq of the model
NewBinding(h) == [cqh_cq |-> THIS_CQ, cqh_ucq |-> h, cqh_refcnt |-> cq_refcnt]

\* variant: the operation table is swapped before the allocations
MakeSoftOpsEarly(ret) == "soft"

\* the operation table after the body of usdf_cq_make_soft: swapped at its end
MakeSoftOps(ret) == IF ret = 0 THEN "soft" ELSE ops

MakeSoftCall(ret) == [NoCall EXCEPT !.op = "make_soft", !.ret = ret]

usdf_cq_make_soft ==
    /\ Idle
    /\ IF ~MakeSoftFromHard
       THEN /\ call' = MakeSoftCall(0)
            /\ UNCHANGED <<ops, c, comps>>
       ELSE LET saved == hard_cq_cq(c)
                inited == [c EXCEPT !.cq_list = <<>>]
                ring == [inited EXCEPT !.w0 = RING, !.cq_end = CqSize,
                                       !.cq_head = 0, !.cq_tail = 0]
            IN
            \/ \* calloc of the entries fails
               /\ c' = [inited EXCEPT !.w0 = NULL]
               /\ call' = MakeSoftCall(-FI_ENOMEM)
               /\ ops' = MakeSoftOps(-FI_ENOMEM)
               /\ UNCHANGED comps
            \/ \* malloc of the binding fails
               /\ saved # NULL
               /\ c' = [ring EXCEPT !.w0 = saved]
               /\ comps' = ZeroRing
               /\ call' = MakeSoftCall(-FI_ENOMEM)
               /\ ops' = MakeSoftOps(-FI_ENOMEM)
            \/ /\ c' = IF saved # NULL
                       THEN [ring EXCEPT !.cq_list = <<NewBinding(saved)>>]
                       ELSE ring
               /\ comps' = ZeroRing
               /\ ops' = MakeSoftOps(0)
               /\ call' = [MakeSoftCall(0) EXCEPT !.stop = "promoted"]
    /\ UNCHANGED <<format, freed, destroyed, ep_prefix, cq_refcnt, cq_comp, hwq, nprod, nposted, ucq,
                   sr, expect, fifo_ok, returned, dropped, errPending, burst>>

\* ------------------------------------------------------------ environment
\* usdf_cq_create_cq: the endpoint layer creates the hardware queue of a hard CQ
usdf_cq_create_cq ==
    /\ Idle /\ ops = "hard" /\ ucq = "none"
    /\ c' = [c EXCEPT !.w0 = UCQ]
    /\ ucq' = "live"
    /\ ep_prefix' \in BOOLEAN    \* mode of the endpoint the queue is created for
    /\ call' = [NoCall EXCEPT !.op = "create_cq"]
    /\ UNCHANGED <<ops, format, freed, destroyed, cq_refcnt, cq_comp, comps, hwq, nprod,
                   nposted, sr, expect, fifo_ok, returned, dropped, errPending, burst>>

\* the hardware completes one more operation; its context is its sequence number
HwComplete ==
    /\ ucq = "live" /\ nprod < MaxComp
    /\ \E t \in CompTypes, st \in CompStats(nprod) :
          \* no code reads the type of a failed completion: one type stands for both
          /\ st # USD_COMPSTAT_SUCCESS => t = USD_COMPTYPE_SEND
          /\ hwq' = Append(hwq, [uc_context |-> nprod + 1, uc_type |-> t,
                                 uc_status |-> st, uc_bytes |-> 100 + nprod])
    /\ nprod' = nprod + 1
    /\ call' = IF sr.active THEN call ELSE [NoCall EXCEPT !.op = "hw"]
    /\ UNCHANGED <<ops, format, freed, destroyed, ep_prefix, cq_refcnt, cq_comp, c, comps,
                   nposted, ucq, sr, expect, fifo_ok, returned, dropped, errPending, burst>>

\* ------------------------------------------------------------ endpoints
\* an endpoint is bound to the CQ
EpBind ==
    /\ Idle /\ cq_refcnt < MaxRef
    /\ cq_refcnt' = cq_refcnt + 1
    /\ call' = [NoCall EXCEPT !.op = "ep_bind"]
    /\ UNCHANGED <<ops, format, freed, destroyed, ep_prefix, cq_comp, c, comps, hwq,
                   nprod, nposted, ucq, sr, expect, fifo_ok, returned, dropped,
                   errPending, burst>>

\* an endpoint bound to the CQ is closed
EpUnbind ==
    /\ Idle /\ cq_refcnt > 0
    /\ cq_refcnt' = cq_refcnt - 1
    /\ call' = [NoCall EXCEPT !.op = "ep_unbind"]
    /\ UNCHANGED <<ops, format, freed, destroyed, ep_prefix, cq_comp, c, comps, hwq,
                   nprod, nposted, ucq, sr, expect, fifo_ok, returned, dropped,
                   errPending, burst>>

\* handle of the n-th hardware queue attached to a soft CQ after its promotion
HcqHandle(n) == "ucq" \o ToString(n + 1)

\* a further hardware queue is attached to a soft CQ, at the tail of its list
HcqAttach ==
    /\ Idle /\ ops = "soft"
    /\ Len(c.cq_list) < MaxBind + 1
    /\ \A i \in 1..Len(c.cq_list) : c.cq_list[i].cqh_ucq # HcqHandle(Len(c.cq_list))
    /\ HcqHandle(Len(c.cq_list)) \notin destroyed
    /\ c' = [c EXCEPT !.cq_list =
                Append(@, [cqh_cq |-> THIS_CQ, cqh_ucq |-> HcqHandle(Len(c.cq_list)),
                           cqh_refcnt |-> 0])]
    /\ call' = [NoCall EXCEPT !.op = "hcq_attach"]
    /\ UNCHANGED <<ops, format, freed, destroyed, ep_prefix, cq_refcnt, cq_comp, comps,
                   hwq, nprod, nposted, ucq, sr, expect, fifo_ok, returned, dropped,
                   errPending, burst>>

\* an endpoint starts or stops using the i-th binding
HcqRef(i, d) ==
    /\ Idle /\ ops = "soft"
    /\ i \in 1..Len(c.cq_list)
    /\ c.cq_list[i].cqh_refcnt + d \in 0..MaxRef
    /\ c' = [c EXCEPT !.cq_list[i].cqh_refcnt = @ + d]
    /\ call' = [NoCall EXCEPT !.op = "hcq_ref"]
    /\ UNCHANGED <<ops, format, freed, destroyed, ep_prefix, cq_refcnt, cq_comp, comps,
                   hwq, nprod, nposted, ucq, sr, expect, fifo_ok, returned, dropped,
                   errPending, burst>>

\* ------------------------------------------------------------ close
\* variant: the loop does not look at the reference count of a binding
RECURSIVE CloseSoftLoopNoRef(_, _)
CloseSoftLoopNoRef(s, failAt) ==
    IF s.list = <<>> THEN s
    ELSE LET hcq == Head(s.list) IN
         IF hcq.cqh_ucq = NULL
         THEN CloseSoftLoopNoRef([s EXCEPT !.list = Tail(@)], failAt)
         ELSE IF s.ncall + 1 = failAt
         THEN [s EXCEPT !.list = Tail(@), !.ncall = @ + 1, !.ret = -FI_EINVAL]
         ELSE CloseSoftLoopNoRef([s EXCEPT !.list = Tail(@), !.ncall = @ + 1,
                                           !.destroyed = @ \cup {hcq.cqh_ucq}], failAt)

\* the while loop of usdf_cq_close over c.soft.cq_list; failAt is the call of
\* usd_destroy_cq that fails (0: none does)
RECURSIVE CloseSoftLoop(_, _)
CloseSoftLoop(s, failAt) ==
    IF s.list = <<>> THEN s
    ELSE LET hcq == Head(s.list) IN
         IF hcq.cqh_refcnt > 0 THEN [s EXCEPT !.ret = -FI_EBUSY]
         ELSE IF hcq.cqh_ucq = NULL
         THEN CloseSoftLoop([s EXCEPT !.list = Tail(@)], failAt)
         ELSE IF s.ncall + 1 = failAt
         THEN [s EXCEPT !.list = Tail(@), !.ncall = @ + 1, !.ret = -FI_EINVAL]
         ELSE CloseSoftLoop([s EXCEPT !.list = Tail(@), !.ncall = @ + 1,
                                      !.destroyed = @ \cup {hcq.cqh_ucq}], failAt)

\* variant: the result of usd_destroy_cq is ignored
CloseHardIgnore(s, handle, failAt) ==
    IF handle = NULL THEN s ELSE [s EXCEPT !.ncall = 1]

\* the hard branch of usdf_cq_close
CloseHard(s, handle, failAt) ==
    IF handle = NULL THEN s
    ELSE IF failAt = 1 THEN [s EXCEPT !.ncall = 1, !.ret = -FI_EINVAL]
    ELSE [s EXCEPT !.ncall = 1, !.destroyed = @ \cup {handle}]

\* variant: the reference count of the CQ is not tested
CloseNeverBusy == FALSE

\* the test of cq_refcnt that usdf_cq_close starts with
CloseBusy == cq_refcnt > 0

usdf_cq_close(failAt) ==
    /\ Idle
    /\ LET s0 == [list |-> c.cq_list, destroyed |-> destroyed, ncall |-> 0, ret |-> 0]
           s == IF CloseBusy THEN [s0 EXCEPT !.ret = -FI_EBUSY]
                ELSE IF usdf_cq_is_soft THEN CloseSoftLoop(s0, failAt)
                ELSE CloseHard(s0, hard_cq_cq(c), failAt)
       IN
       /\ failAt <= s.ncall
       /\ destroyed' = s.destroyed
       /\ freed' = (s.ret = 0)
       /\ call' = [NoCall EXCEPT !.op = "close", !.ret = s.ret,
                                 !.stop = IF failAt > 0 THEN "destroy" ELSE "none"]
       /\ IF s.ret = 0
          THEN \* free(cq): nothing of the object and of its queues is left
               /\ c' = ZeroUnion /\ comps' = ZeroRing /\ cq_comp' = ZeroComp
               /\ hwq' = <<>> /\ ucq' = "none" /\ ops' = "none"
               /\ nprod' = 0 /\ nposted' = 0 /\ ep_prefix' = FALSE
               /\ expect' = 0 /\ fifo_ok' = TRUE /\ dropped' = FALSE
               /\ returned' = [n \in 1..MaxComp |-> 0]
               /\ errPending' = NoPending /\ burst' = NoBurst
          ELSE /\ c' = IF usdf_cq_is_soft THEN [c EXCEPT !.cq_list = s.list] ELSE c
               /\ UNCHANGED <<ops, ep_prefix, cq_comp, comps, hwq, nprod, nposted, ucq,
                              expect, fifo_ok, returned, dropped, errPending, burst>>
    /\ UNCHANGED <<format, cq_refcnt, sr>>

\* ------------------------------------------------------------ specification
\* the CQ as usdf_cq_open leaves it: calloc'ed, hard operation table
Init ==
    /\ ops = "hard"
    /\ format \in Formats
    /\ ep_prefix = FALSE
    /\ cq_refcnt = 0
    /\ cq_comp = ZeroComp
    /\ c = ZeroUnion
    /\ comps = ZeroRing
    /\ hwq = <<>>
    /\ nprod = 0
    /\ nposted = 0
    /\ ucq = "none"
    /\ sr = NoSread
    /\ call = NoCall
    /\ expect = 1
    /\ fifo_ok = TRUE
    /\ returned = [n \in 1..MaxComp |-> 0]
    /\ dropped = FALSE
    /\ errPending = NoPending
    /\ burst = NoBurst
    /\ freed = FALSE
    /\ destroyed = {}

\* Posted completions are explored on a CQ promoted before any hardware queue was
\* created; SpecMixed below explores them next to hardware completions.
Next ==
    \/ usdf_cq_create_cq
    \/ HwComplete
    \/ \E n \in Counts : usdf_cq_read_common(n)
    \/ \E n \in Counts, t \in Timeouts : usdf_cq_sread_common(n, t)
    \/ usdf_cq_sread_common_wake
    \/ \E n \in Counts : usdf_cq_readfrom_context(n)
    \/ usdf_cq_readerr
    \/ usdf_cq_make_soft
    \/ \E n \in Counts : usdf_cq_read_common_soft(n)
    \/ \E n \in Counts, t \in Timeouts : usdf_cq_sread_common_soft(n, t)
    \/ usdf_cq_sread_common_soft_wake
    \/ usdf_cq_readerr_soft
    \/ (ucq = "none" /\ \E e \in ProvErrnos : usdf_cq_post_soft(e))
    \/ usdf_domain_progress
    \/ \E failAt \in 0..1 : usdf_cq_close(failAt)

Spec == Init /\ [][Next]_vars

NextMixed ==
    \/ usdf_cq_create_cq
    \/ HwComplete
    \/ \E n \in Counts : usdf_cq_read_common(n)
    \/ usdf_cq_make_soft
    \/ \E n \in Counts : usdf_cq_read_common_soft(n)
    \/ \E e \in ProvErrnos : usdf_cq_post_soft(e)

SpecMixed == Init /\ [][NextMixed]_vars

\* hardware completions, pump and reads only: one hardware queue is the only source
NextFifo ==
    \/ usdf_cq_create_cq
    \/ HwComplete
    \/ \E n \in Counts : usdf_cq_read_common(n)
    \/ usdf_cq_readerr
    \/ usdf_cq_make_soft
    \/ \E n \in Counts : usdf_cq_read_common_soft(n)
    \/ usdf_domain_progress

SpecFifo == Init /\ [][NextFifo]_vars

\* the life of the CQ object: endpoints come and go, the CQ is promoted, closed
NextClose ==
    \/ usdf_cq_create_cq
    \/ usdf_cq_make_soft
    \/ EpBind
    \/ EpUnbind
    \/ HcqAttach
    \/ \E i \in 1..(MaxBind + 1), d \in {-1, 1} : HcqRef(i, d)
    \/ \E failAt \in 0..(MaxBind + 1) : usdf_cq_close(failAt)

SpecClose == Init /\ [][NextClose]_vars

\* the soft ring fed from both sides: posted completions and the pump of a
\* hardware queue
NextRing ==
    \/ usdf_cq_create_cq
    \/ HwComplete
    \/ usdf_cq_make_soft
    \/ \E e \in ProvErrnos : usdf_cq_post_soft(e)
    \/ usdf_domain_progress
    \/ \E n \in Counts : usdf_cq_read_common_soft(n)
    \/ usdf_cq_readerr_soft

SpecRing == Init /\ [][NextRing]_vars

\* a CQ promoted before any hardware queue was created, read with addresses
NextReadfromSoft ==
    \/ usdf_cq_make_soft
    \/ \E e \in ProvErrnos : usdf_cq_post_soft(e)
    \/ \E n \in Counts : usdf_cq_readfrom_context_soft(n)
    \/ \E n \in Counts : usdf_cq_read_common_soft(n)
    \/ usdf_cq_readerr_soft

SpecReadfromSoft == Init /\ [][NextReadfromSoft]_vars

\* blocking reads with deadlines of weeks while no completion arrives
NextDeadline ==
    \/ usdf_cq_create_cq
    \/ \E n \in Counts, t \in LongTimeouts : usdf_cq_sread_common(n, t)
    \/ usdf_cq_sread_common_wake
    \/ usdf_cq_make_soft
    \/ \E n \in Counts, t \in LongTimeouts : usdf_cq_sread_common_soft(n, t)
    \/ usdf_cq_sread_common_soft_wake

SpecDeadline == Init /\ [][NextDeadline]_vars

\* blocking reads on a CQ no completion ever arrives on; a sleeping call is
\* woken when its usleep is over
NextSreadIdle ==
    \/ usdf_cq_create_cq
    \/ \E n \in Counts, t \in SreadTimeouts : usdf_cq_sread_common(n, t)
    \/ usdf_cq_sread_common_wake
    \/ usdf_cq_make_soft
    \/ \E n \in Counts, t \in SreadTimeouts : usdf_cq_sread_common_soft(n, t)
    \/ usdf_cq_sread_common_soft_wake

SpecSreadIdle ==
    /\ Init /\ [][NextSreadIdle]_vars
    /\ WF_vars(usdf_cq_sread_common_wake)
    /\ WF_vars(usdf_cq_sread_common_soft_wake)

\* blocking reads with a deadline that takes several sleeps to reach
NextSread ==
    \/ usdf_cq_create_cq
    \/ HwComplete
    \/ \E n \in Counts, t \in SreadTimeouts : usdf_cq_sread_common(n, t)
    \/ usdf_cq_sread_common_wake
    \/ usdf_cq_make_soft
    \/ \E n \in Counts, t \in SreadTimeouts : usdf_cq_sread_common_soft(n, t)
    \/ usdf_cq_sread_common_soft_wake
    \/ (ucq = "none" /\ \E e \in ProvErrnos : usdf_cq_post_soft(e))

SpecSread == Init /\ [][NextSread]_vars

\* ------------------------------------------------------------ claims
SendFlags == {"FI_MSG", "FI_SEND"}
RecvFlags == {"FI_MSG", "FI_RECV"}

\* C1: after N >= C pushes of entries without provider error onto an empty ring
\* of capacity C, with no read interleaved, the ring holds the first min(N, C) of
\* them, unaltered and in push order; the reads that follow return exactly those
\* entries in push order, and -FI_EAGAIN once they are all returned.
BurstTotal == Min(burst.n, CqSize)
C1_RingOverflow ==
    /\ (usdf_cq_is_soft /\ burst.phase = "push" /\ burst.n >= CqSize) =>
          /\ RingCount(c) = BurstTotal
          /\ \A i \in 1..BurstTotal :
                /\ RingSeq(c, comps)[i].cse_context = PostContext(burst.first + i - 1)
                /\ RingSeq(c, comps)[i].cse_len = 10 + (burst.first + i - 2)
    /\ (usdf_cq_is_soft /\ burst.phase = "read" /\ burst.n >= CqSize
        /\ call.op = "read") =>
          LET k == Len(call.out)
              before == burst.got - k
          IN
          /\ k = Min(call.count, BurstTotal - before)
          /\ \A i \in 1..k :
                call.out[i].op_context = PostContext(burst.first + before + i - 1)
          /\ k > 0 => call.ret = k
          /\ (k = 0 /\ call.count > 0) => call.ret = -FI_EAGAIN

\* C2: the contexts the reads (and the error reads) return are the contexts the
\* hardware queue produced, in that order, as long as no push found the ring full.
C2_FifoDelivery == (~dropped) => fifo_ok

C4_StickyGating ==
    [][(ops = "hard" /\ cq_comp.uc_status # 0) =>
         /\ call'.op \in {"read", "sread", "readfrom"} =>
               call'.ret = -FI_EAVAIL /\ hwq' = hwq /\ cq_comp' = cq_comp
         /\ call'.op = "readerr" =>
               /\ call'.ret = 1
               /\ call'.err.op_context = cq_comp.uc_context
               /\ call'.err.err = FI_EIO
               /\ call'.err.prov_errno =
                     CASE cq_comp.uc_status = USD_COMPSTAT_ERROR_CRC -> FI_ECRC
                       [] cq_comp.uc_status = USD_COMPSTAT_ERROR_TRUNC -> FI_ETRUNC
                       [] cq_comp.uc_status = USD_COMPSTAT_ERROR_TIMEOUT -> FI_ETIMEDOUT
                       [] cq_comp.uc_status = USD_COMPSTAT_ERROR_INTERNAL -> FI_EOTHER
               /\ cq_comp'.uc_status = 0
         /\ (call'.op # "readerr" /\ ~freed') => cq_comp' = cq_comp
      ]_vars

C4_Witness ==
    /\ ops = "hard" /\ cq_comp.uc_status # 0 /\ hwq # <<>>
    /\ call.op \in {"read", "sread", "readfrom"} /\ call.stop = "sticky"

\* C5: read_error returns -FI_EAGAIN and changes nothing when no error detail is
\* buffered (hard: the sticky slot is clear; soft: the ring is empty or the entry
\* at its tail has no provider error); otherwise it consumes exactly one detail.
CqState == <<ops, cq_comp, c, comps, hwq, cq_refcnt>>
NoErrorBuffered ==
    IF ops = "hard" THEN cq_comp.uc_status = 0
    ELSE RingEmpty(c) \/ comps[c.cq_tail].cse_prov_errno <= 0
C5_ReaderrTryAgain ==
    [][call'.op = "readerr" =>
         IF NoErrorBuffered
         THEN call'.ret = -FI_EAGAIN /\ CqState' = CqState
         ELSE /\ call'.ret = 1
              /\ IF ops = "hard" THEN cq_comp'.uc_status = 0
                 ELSE RingSeq(c', comps') = Tail(RingSeq(c, comps))
      ]_vars

\* C6: a soft read that returns -FI_EAVAIL for the entry at the tail leaves the
\* ring as the progress sweep left it; the read_error after it returns that
\* entry's context and provider error and removes that entry alone, so that a
\* read then returns -FI_EAGAIN if it was the only entry.
C6_SoftErrorConsumption ==
    [][/\ (ops = "soft" /\ call'.op = "read" /\ call'.stop = "err"
           /\ call'.ret = -FI_EAVAIL) =>
            c' = Progressed.u /\ comps' = Progressed.ring
       /\ (ops = "soft" /\ call.op = "read" /\ call.stop = "err"
           /\ call.ret = -FI_EAVAIL /\ call'.op = "readerr") =>
            /\ call'.ret = 1
            /\ call'.err.op_context = comps[c.cq_tail].cse_context
            /\ call'.err.prov_errno = comps[c.cq_tail].cse_prov_errno
            /\ RingSeq(c', comps') = Tail(RingSeq(c, comps))
            /\ RingCount(c) = 1 =>
                  SoftReadRet(SoftReadLoop(c', comps', c'.cq_tail, <<>>, 1)) = -FI_EAGAIN
      ]_vars

\* C7: on a soft CQ fed by one hardware queue whose ring never filled, no hardware
\* completion is handed out twice, and once the hardware queue and the ring are
\* both drained every completion produced so far has been handed out exactly once.
C7_NoCompletionLost ==
    (usdf_cq_is_soft /\ ucq = "live" /\ nprod < CqSize /\ cq_comp.uc_status = 0) =>
       /\ \A n \in 1..nprod : returned[n] <= 1
       /\ (hwq = <<>> /\ RingEmpty(c)) => \A n \in 1..nprod : returned[n] = 1

\* C8: a hard read(count) with the sticky slot clear and m successful completions
\* waiting returns min(m, count) entries in hardware order, takes exactly those off
\* the hardware queue, flags each as send or receive by its type (message and data
\* formats), and returns -FI_EAGAIN when m = 0 and count > 0.
C8_HardRead ==
    [][(call'.op = "read" /\ ops = "hard" /\ cq_comp.uc_status = 0
        /\ \A i \in 1..Len(hwq) : hwq[i].uc_status = 0) =>
         LET m == Len(hwq)
             k == Min(m, call'.count)
         IN
         /\ Len(call'.out) = k
         /\ k > 0 => call'.ret = k
         /\ (m = 0 /\ call'.count > 0) => call'.ret = -FI_EAGAIN
         /\ hwq' = SubSeq(hwq, k + 1, m)
         /\ \A i \in 1..k :
               /\ call'.out[i].op_context = hwq[i].uc_context
               /\ format # FI_CQ_FORMAT_CONTEXT =>
                     call'.out[i].flags = IF hwq[i].uc_type = USD_COMPTYPE_SEND
                                          THEN SendFlags ELSE RecvFlags
      ]_vars

C8_Witness ==
    /\ ops = "hard" /\ call.op = "read" /\ call.ret = 2 /\ call.stop = "full"
    /\ hwq = <<>> /\ format = FI_CQ_FORMAT_MSG
    /\ call.out[1].flags = SendFlags /\ call.out[2].flags = RecvFlags

\* C9: usdf_cq_make_soft on a CQ that is already soft returns 0 and leaves the
\* ring, its head, tail and discriminator, its entries and the binding list as
\* they were.
C9_PromotionIdempotent ==
    [][(call'.op = "make_soft" /\ ops = "soft") =>
         call'.ret = 0 /\ CqState' = CqState
      ]_vars

C9_Witness ==
    /\ ops = "soft" /\ call.op = "make_soft" /\ call.ret = 0
    /\ RingCount(c) > 0 /\ c.cq_list # <<>>

\* C10: a usdf_cq_make_soft that returns -FI_ENOMEM leaves the CQ in hard mode
\* with the hardware queue handle it had.
C10_PromotionAllOrNothing ==
    [][(call'.op = "make_soft" /\ call'.ret = -FI_ENOMEM) =>
         /\ ops' = "hard"
         /\ hard_cq_cq(c') = hard_cq_cq(c)
         /\ cq_comp' = cq_comp /\ hwq' = hwq /\ cq_refcnt' = cq_refcnt
      ]_vars
\* C11: the CQ is hard after open; it becomes soft only in a usdf_cq_make_soft
\* that returns 0; once soft it stays soft under every operation, a failed
\* usdf_cq_close included, until usdf_cq_close frees it.
C11_ModeOneWay ==
    /\ ops = "hard"
    /\ [][/\ (ops = "hard" /\ ops' # "hard" /\ ~freed') =>
               ops' = "soft" /\ call'.op = "make_soft" /\ call'.ret = 0
          /\ (ops = "soft" /\ ~freed') => ops' = "soft"
         ]_vars

C11_Witness ==
    /\ ops = "soft" /\ ~freed /\ call.op = "close" /\ call.ret = -FI_EINVAL
    /\ hwq # <<>>

\* C12: usdf_cq_close on a CQ with cq_refcnt > 0 returns -FI_EBUSY, destroys no
\* hardware queue, removes no binding, does not free the CQ and leaves it as it was.
C12_CloseBusyNoEffect ==
    [][(call'.op = "close" /\ cq_refcnt > 0) =>
         /\ call'.ret = -FI_EBUSY
         /\ ~freed' /\ destroyed' = destroyed
         /\ CqState' = CqState
      ]_vars

C12_Witness ==
    /\ call.op = "close" /\ call.ret = -FI_EBUSY /\ cq_refcnt > 0
    /\ ops = "soft" /\ Len(c.cq_list) > 1
    /\ \A i \in 1..Len(c.cq_list) : c.cq_list[i].cqh_refcnt = 0

\* C13: usdf_cq_close on a soft CQ with cq_refcnt = 0 and a binding with a nonzero
\* reference count anywhere in the list returns -FI_EBUSY, removes no binding and
\* destroys no hardware queue.
C13_CloseBusyBinding ==
    [][(call'.op = "close" /\ ops = "soft" /\ cq_refcnt = 0
        /\ \E i \in 1..Len(c.cq_list) : c.cq_list[i].cqh_refcnt > 0) =>
         /\ call'.ret = -FI_EBUSY
         /\ ~freed' /\ destroyed' = destroyed
         /\ c'.cq_list = c.cq_list
      ]_vars

\* C14: when a usd_destroy_cq fails inside usdf_cq_close, in hard or soft mode,
\* close returns that error, the CQ is not freed and keeps its mode, and close can
\* be called on it again.
C14_CloseDestroyFailure ==
    [][(call'.op = "close" /\ call'.stop = "destroy") =>
         /\ call'.ret = -FI_EINVAL
         /\ ~freed' /\ ops' = ops
         /\ <<cq_comp, comps, hwq, cq_refcnt>>' = <<cq_comp, comps, hwq, cq_refcnt>>
         /\ ~sr'.active      \* the guard of usdf_cq_close holds again
      ]_vars

C14_Witness ==
    /\ call.op = "close" /\ call.stop = "destroy" /\ call.ret = -FI_EINVAL
    /\ ops = "soft" /\ destroyed # {}

\* C15: usdf_cq_close frees the CQ only when cq_refcnt is zero and every binding
\* in its list has reference count zero, and a close destroys no hardware queue
\* but those of bindings (or of the hard CQ) with reference count zero.
C15_FreedOnlyWhenReleased ==
    [][call'.op = "close" =>
         /\ freed' => /\ cq_refcnt = 0
                      /\ ops = "soft" =>
                            \A i \in 1..Len(c.cq_list) : c.cq_list[i].cqh_refcnt = 0
         /\ \A h \in destroyed' \ destroyed :
               /\ cq_refcnt = 0
               /\ IF ops = "soft"
                  THEN \E i \in 1..Len(c.cq_list) :
                          c.cq_list[i].cqh_ucq = h /\ c.cq_list[i].cqh_refcnt = 0
                  ELSE hard_cq_cq(c) = h
      ]_vars

C15_Witness ==
    /\ freed /\ call.op = "close" /\ call.ret = 0 /\ Cardinality(destroyed) > 1

\* ------------------------------------------------------------ C16
\* what a step into usleep leaves alone: nothing was polled, copied or consumed
SleptOnNothing ==
    /\ call'.out = <<>>
    /\ returned' = returned
    /\ IF ops = "hard"
       THEN hwq = <<>> /\ cq_comp' = cq_comp
       ELSE /\ c'.cq_tail = c.cq_tail
            /\ call'.count > 0 => RingEmpty(c')

SleptOnce ==
    /\ sr.active /\ sr.timeout_ms < 0 /\ sr.count > 0
    /\ sr.time_spent_us = SREAD_INIT_SLEEP_TIME_US

\* exactly one completion, a successful one, is waiting in the hardware queue
\* the CQ polls: its own in hard mode, one on its list in soft mode
OneSuccessWaiting ==
    /\ Len(hwq) = 1 /\ hwq[1].uc_status = USD_COMPSTAT_SUCCESS
    /\ IF ops = "hard" THEN hard_cq_cq(c) = UCQ
       ELSE \E i \in 1..Len(c.cq_list) : c.cq_list[i].cqh_ucq = UCQ

\* C17: a blocking read with a negative timeout and count > 0 never returns
\* -FI_EAGAIN; while nothing is available each poll ends in another sleep;
\* and when one successful completion has arrived during the first sleep the
\* next poll returns 1 with one entry, the entry of that completion.
C17_IndefiniteWait ==
    [][/\ (call'.op = "sread" /\ call'.timeout_ms < 0 /\ call'.count > 0) =>
            call'.ret # -FI_EAGAIN
       /\ (sr.active /\ sr.timeout_ms < 0 /\ sr.count > 0 /\ sr' # sr
           /\ hwq = <<>> /\ (ops = "soft" => RingEmpty(c))) =>
            sr'.active /\ sr'.time_spent_us > sr.time_spent_us
       /\ (SleptOnce /\ OneSuccessWaiting /\ sr' # sr) =>
            /\ ~sr'.active
            /\ call'.op = "sread" /\ call'.ret = 1 /\ Len(call'.out) = 1
            /\ call'.spent = SREAD_INIT_SLEEP_TIME_US
            /\ hwq' = <<>>
            /\ call'.out[1].op_context = hwq[1].uc_context
      ]_vars

\* a blocking read without deadline asked for two entries, slept once and
\* returned the one completion that arrived meanwhile
C17_Witness ==
    /\ call.op = "sread" /\ call.timeout_ms < 0 /\ call.count = 2
    /\ call.ret = 1 /\ call.spent = SREAD_INIT_SLEEP_TIME_US
    /\ ~sr.active

\* ------------------------------------------------------------ C18
\* the length a hard-mode entry reports for a completion of raw length L
ReportedLen(type, L) ==
    CASE type = USD_COMPTYPE_RECV /\ ~ep_prefix -> L - SizeofUsdUdpHdr
      [] type = USD_COMPTYPE_RECV /\ ep_prefix ->
            L + (USDF_HDR_BUF_ENTRY - SizeofUsdUdpHdr)
      [] type = USD_COMPTYPE_SEND /\ ~ep_prefix -> L
      [] type = USD_COMPTYPE_SEND /\ ep_prefix -> L + USDF_HDR_BUF_ENTRY

\* C18: every entry a hard-mode read or blocking read returns in the message
\* or data format reports, for a receive completion of raw length L,
\* L - sizeof(struct usd_udp_hdr) without FI_MSG_PREFIX and
\* L + (USDF_HDR_BUF_ENTRY - sizeof(struct usd_udp_hdr)) with it, and for a send
\* completion L without FI_MSG_PREFIX and L + USDF_HDR_BUF_ENTRY with it; an
\* entry in the context format has no length field.
C18_LengthAdjustment ==
    [][(call'.op \in {"read", "sread"} /\ ops = "hard") =>
         \A i \in 1..Len(call'.out) :
            IF format = FI_CQ_FORMAT_CONTEXT
            THEN DOMAIN call'.out[i] = {"op_context"}
            ELSE /\ "len" \in DOMAIN call'.out[i]
                 /\ call'.out[i].len = ReportedLen(hwq[i].uc_type, hwq[i].uc_bytes)
      ]_vars

\* a hard read in message format with FI_MSG_PREFIX returned a send and a receive
C18_Witness ==
    /\ ops = "hard" /\ call.op = "read" /\ call.ret = 2
    /\ format = FI_CQ_FORMAT_MSG /\ ep_prefix
    /\ call.out[1].flags = SendFlags /\ call.out[1].len = 100 + 64
    /\ call.out[2].flags = RecvFlags /\ call.out[2].len = 101 + 22

\* ------------------------------------------------------------ C19
\* C19: after usdf_cq_readfrom_context, for every returned entry i: if it came
\* from a receive completion, position i of src_addr holds the address resolved
\* for it or FI_ADDR_NOTAVAIL; if it came from a send completion, position i is
\* as the caller left it.
C19_AddressAlignment ==
    [][call'.op = "readfrom" =>
         \A i \in 1..Len(call'.out) :
            /\ call'.out[i].op_context = hwq[i].uc_context
            /\ IF hwq[i].uc_type = USD_COMPTYPE_RECV
               THEN call'.addr[i] \in {AddrOf(hwq[i].uc_context), FI_ADDR_NOTAVAIL}
               ELSE call'.addr[i] = AddrUntouched
      ]_vars

\* ------------------------------------------------------------ C20
\* the ring is empty and the pump of the coming read will store the completion
\* at the head of the hardware queue at the ring tail
TailFromHardware ==
    /\ ops = "soft" /\ RingEmpty(c) /\ hwq # <<>>
    /\ \E i \in 1..Len(c.cq_list) : c.cq_list[i].cqh_ucq = UCQ

\* C20: a soft-mode read that asks for entries and finds at the ring tail the
\* entry of a hardware completion returns -FI_EAVAIL if and only if that
\* completion failed; the entry of a successful completion is returned as a
\* normal entry. (The test of the hard-mode error slot at the start of the
\* read is left aside.)
C20_PerEntryErrorIdentity ==
    [][(call'.op = "read" /\ TailFromHardware /\ call'.count > 0
        /\ call'.stop # "sticky") =>
         /\ call'.ret = -FI_EAVAIL <=> hwq[1].uc_status # USD_COMPSTAT_SUCCESS
         /\ hwq[1].uc_status = USD_COMPSTAT_SUCCESS => call'.ret >= 1
      ]_vars

\* ------------------------------------------------------------ C21
\* the hardware queue is on the binding list the progress sweep walks
HardwareOnList ==
    \E i \in 1..Len(c.cq_list) : c.cq_list[i].cqh_ucq = UCQ

\* C21: when usdf_domain_progress has run the pump of the hardware queue, the
\* hardware queue is empty, and the ring gained one entry for every completion
\* taken from the queue unless the ring ended up full.
C21_PumpDrains ==
    [][(call'.op = "progress" /\ ops = "soft" /\ HardwareOnList) =>
         /\ hwq' = <<>>
         /\ \/ RingCount(c') = RingCount(c) + (Len(hwq) - Len(hwq'))
            \/ RingFull(c')
      ]_vars

\* ------------------------------------------------------------ C23
\* what usdf_cq_make_soft leaves in the union when it promotes a hard CQ
PromotedUnion ==
    /\ soft_cq_comps(c') = RING /\ c'.cq_end = CqSize
    /\ c'.cq_head = 0 /\ c'.cq_tail = 0
    /\ c'.cq_last_op = USDF_SOFT_CQ_READ
    /\ RingEmpty(c')
    /\ c'.cq_list = IF hard_cq_cq(c) = NULL THEN <<>>
                    ELSE <<[cqh_cq |-> THIS_CQ, cqh_ucq |-> hard_cq_cq(c),
                            cqh_refcnt |-> cq_refcnt]>>

\* C23: a promotion from hard mode that succeeds leaves a ring of cq_attr.size
\* slots that is empty (head = tail = first slot, last operation a read) and a
\* binding list that holds exactly one binding for the hardware queue that was
\* bound (pointing back to the CQ, with the reference count of the CQ) or no
\* binding if none was bound; and a read of at least one entry right after it,
\* with no new completion, returns -FI_EAGAIN.
C23_PromotionResult ==
    [][/\ (ops = "hard" /\ ops' = "soft") => PromotedUnion
       /\ (call.op = "make_soft" /\ call.stop = "promoted" /\ hwq = <<>>
           /\ call'.op = "read" /\ call'.count > 0) =>
            call'.ret = -FI_EAGAIN
      ]_vars

\* ------------------------------------------------------------ C22
\* C22: when a soft read in the data format pumps a successful hardware
\* completion into the empty ring and returns it, the first entry returned has
\* the context of that completion, the flags of its type, its byte count as
\* length, and zero buf and data.
C22_SoftRoundTrip ==
    [][(call'.op = "read" /\ TailFromHardware /\ call'.count > 0
        /\ call'.stop # "sticky" /\ format = FI_CQ_FORMAT_DATA
        /\ hwq[1].uc_status = USD_COMPSTAT_SUCCESS /\ Len(call'.out) > 0) =>
         /\ call'.out[1].op_context = hwq[1].uc_context
         /\ call'.out[1].flags = IF hwq[1].uc_type = USD_COMPTYPE_SEND
                                 THEN SendFlags ELSE RecvFlags
         /\ call'.out[1].len = hwq[1].uc_bytes
         /\ call'.out[1].buf = 0 /\ call'.out[1].data = 0
      ]_vars

\* ------------------------------------------------------------ C24
MaxSleeps == 16

\* the k-th quantum of one blocking read, and the time slept after k sleeps
RECURSIVE Quantum(_)
Quantum(k) ==
    IF k = 1 THEN SREAD_INIT_SLEEP_TIME_US
    ELSE Min(Quantum(k - 1) * SREAD_EXP_BASE, SREAD_MAX_SLEEP_TIME_US)

RECURSIVE SumQuanta(_)
SumQuanta(k) == IF k = 0 THEN 0 ELSE SumQuanta(k - 1) + Quantum(k)

\* C24: at every sleep of a blocking read the quantum slept is the k-th of the
\* series that starts at SREAD_INIT_SLEEP_TIME_US and is multiplied by
\* SREAD_EXP_BASE and capped at SREAD_MAX_SLEEP_TIME_US after each sleep: it
\* lies between the initial and the maximum value, the next quantum is not
\* smaller, and time_spent_us is the sum of the quanta slept so far.
C24_BackoffQuantum ==
    [][(sr'.active /\ sr' # sr) =>
         LET before == IF sr.active THEN sr.time_spent_us ELSE 0
             q == sr'.time_spent_us - before
         IN
         /\ SREAD_INIT_SLEEP_TIME_US <= q /\ q <= SREAD_MAX_SLEEP_TIME_US
         /\ sr.active => q = sr.sleep_time_us
         /\ sr'.sleep_time_us >= q
         /\ sr'.sleep_time_us <= SREAD_MAX_SLEEP_TIME_US
         /\ \E k \in 1..MaxSleeps :
               /\ q = Quantum(k)
               /\ before = SumQuanta(k - 1)
               /\ sr'.time_spent_us = SumQuanta(k)
               /\ sr'.sleep_time_us = Quantum(k + 1)
      ]_vars

\* a blocking read that has slept the capped quantum twice
C24_Witness ==
    /\ sr.active /\ sr.sleep_time_us = SREAD_MAX_SLEEP_TIME_US
    /\ sr.time_spent_us = SumQuanta(13) + 2 * SREAD_MAX_SLEEP_TIME_US

\* ------------------------------------------------------------ C25
\* C25: read_with_address on a soft CQ returns the entries a scan of the ring
\* from its tail returns, in ring order, consumes them from the ring, and
\* leaves the hard-mode error slot cq_comp as it was.
C25_VariantDiscipline ==
    [][(call'.op = "readfrom" /\ ops = "soft") =>
         /\ cq_comp' = cq_comp
         /\ call'.stop # "sticky" =>
               LET P == Progressed
                   r == SoftReadLoop(P.u, P.ring, P.u.cq_tail, <<>>, call'.count)
               IN
               /\ call'.out = r.out
               /\ c'.cq_tail = r.tail
      ]_vars

\* ------------------------------------------------------------ C26
\* head and tail are slots of the ring and the discriminator is one of its two
\* values
RingInRange(u) ==
    /\ u.cq_head \in 0..(u.cq_end - 1)
    /\ u.cq_tail \in 0..(u.cq_end - 1)
    /\ u.cq_last_op \in {USDF_SOFT_CQ_READ, USDF_SOFT_CQ_WRITE}

\* C26: on a soft CQ head and tail stay inside the ring, and the number of
\* entries that head, tail and the discriminator stand for (0 when head = tail
\* after a read, the capacity when head = tail after a write) is the number of
\* entries buffered: post_soft adds one unless the ring is full, a read or
\* blocking read takes off the entries it returns, read_error takes off the one
\* entry it reports, or none from an empty ring.
C26_RingWellFormed ==
    [][(ops = "soft" /\ ops' = "soft") =>
         /\ RingInRange(c')
         /\ RingCount(c') \in 0..CqSize
         /\ call'.op = "post_soft" =>
               RingCount(c') = Min(CqSize, RingCount(c) + 1)
         /\ (call'.op \in {"read", "sread"} /\ call'.stop # "sticky") =>
               RingCount(c') = RingCount(Progressed.u) - Len(call'.out)
         /\ call'.op = "readerr" =>
               RingCount(c') = IF RingCount(c) = 0 THEN 0 ELSE RingCount(c) - 1
      ]_vars

\* ------------------------------------------------------------ C27
\* the hardware queues the CQ with union u and operation table o refers to
HeldQueues(u, o) ==
    IF o = "soft"
    THEN {u.cq_list[i].cqh_ucq : i \in 1..Len(u.cq_list)} \ {NULL}
    ELSE {hard_cq_cq(u)} \ {NULL}

\* C27: after a usdf_cq_close that returns an error, every hardware queue the
\* CQ referred to before the call has been destroyed or is still referred to
\* by the CQ.
C27_NoOrphanOnClose ==
    [][(call'.op = "close" /\ call'.ret # 0) =>
         \A h \in HeldQueues(c, ops) :
            h \in destroyed' \/ h \in HeldQueues(c', ops')
      ]_vars

\* ------------------------------------------------------------ C28
\* a failed completion is at the tail of the ring once the pump has run
FailedEntryPending ==
    LET P == Progressed IN
    ~RingEmpty(P.u) /\ P.ring[P.u.cq_tail].cse_prov_errno > 0

\* C28: on a soft CQ a read that directly follows a read_error returns
\* -FI_EAVAIL only if a further failed completion is pending at the ring tail.
C28_ErrorRecoverable ==
    [][(ops = "soft" /\ call.op = "readerr"
        /\ call'.op = "read" /\ call'.ret = -FI_EAVAIL) =>
         FailedEntryPending
      ]_vars

\* ------------------------------------------------------------ C29
\* C29: with no completion ever arriving, a blocking read with timeout_ms >= 0
\* returns, whatever its count, and what it returns is -FI_EAGAIN with no
\* entry: a call that went to sleep is back after finitely many sleeps.
C29_SreadTerminates ==
    /\ [](call.op = "sread" /\ call.timeout_ms >= 0 =>
             call.ret = -FI_EAGAIN /\ call.out = <<>>)
    /\ (sr.active /\ sr.timeout_ms >= 0) ~>
          (~sr.active /\ call.op = "sread" /\ call.ret = -FI_EAGAIN)

\* a soft blocking read for no entry at all that slept through its 14 ms
C29_Witness ==
    /\ ~sr.active /\ ops = "soft" /\ call.op = "sread" /\ call.count = 0
    /\ call.timeout_ms = 14 /\ call.spent >= 14000 /\ call.ret = -FI_EAGAIN

\* ------------------------------------------------------------ C30
\* C30: a blocking read that asked for entries and got none returns
\* -FI_EAGAIN when, and only when, the time slept has reached 1000 * timeout_ms
\* microseconds: not before, and it goes to sleep again only below it.
C30_DeadlineExact ==
    [][/\ (call'.op = "sread" /\ call'.ret = -FI_EAGAIN /\ call'.count > 0
           /\ call'.timeout_ms >= 0) =>
            call'.spent \div 1000 >= call'.timeout_ms
       /\ (sr'.active /\ sr' # sr /\ sr'.timeout_ms >= 0) =>
            LET before == IF sr.active THEN sr.time_spent_us ELSE 0 IN
            before \div 1000 < sr'.timeout_ms
      ]_vars
====
